---------------------------- MODULE Spec2Model ----------------------------
(***************************************************************************)
(* OptionScope deployment script (src/deploy.py, class OptionScopeDeployer). *)
(*                                                                         *)
(* The script is a single-threaded sequence of prompts, external commands  *)
(* and billing-SDK calls.  The model keeps the program's locals, the       *)
(* position in the code (pc) and the ordered trace of everything the       *)
(* script does to the outside world (log): every line printed, every       *)
(* prompt issued, every command run with its exit status, every billing    *)
(* call.  Text is modelled as sequences of one-character strings so that   *)
(* str.strip and str.lower are computed, not assumed.                      *)
(*                                                                         *)
(* The model covers the program text, lines 1-328 of the file; the lines   *)
(* after it are prose and no part of the program.  External commands end   *)
(* with exit status zero or non-zero (a version probe may also find no     *)
(* executable); billing-SDK calls succeed or raise an Exception.           *)
(***************************************************************************)
EXTENDS Integers, Sequences, FiniteSets, TLC

VARIABLES
    platform,            \* argument of deploy()
    pc,                  \* position in the code
    log,                 \* ordered trace of prints, prompts, commands, SDK calls
    exc,                 \* exception that escaped deploy(), "none" if none
    url,                 \* value returned by the platform routine
    api_key,             \* stripe.api_key
    made,                \* billing objects created so far in setup_stripe_products
    app_name,            \* deploy_heroku local
    ret,                 \* where get_production_env_vars returns to
    stripe_publishable,  \* get_production_env_vars locals
    stripe_secret,
    stripe_webhook,
    alpha_vantage,
    iex_key,
    env_vars,            \* ordered mapping: sequence of [key, value]
    idx,                 \* position of the "for key, value in env_vars.items()" loop
    typed                \* observer: the raw line typed at each secret prompt

vars == << platform, pc, log, exc, url, api_key, made, app_name, ret,
           stripe_publishable, stripe_secret, stripe_webhook, alpha_vantage,
           iex_key, env_vars, idx, typed >>

---------------------------------------------------------------------------
(* Bounds                                                                  *)

\* most whitespace characters typed around an answer (left plus right)
MaxPad == 1

---------------------------------------------------------------------------
(* Text                                                                    *)

Whitespace == {" ", "\t"}

RECURSIVE LStrip(_)
LStrip(s) == IF s # << >> /\ Head(s) \in Whitespace THEN LStrip(Tail(s)) ELSE s

RECURSIVE RStrip(_)
RStrip(s) ==
    IF s # << >> /\ s[Len(s)] \in Whitespace
    THEN RStrip(SubSeq(s, 1, Len(s) - 1))
    ELSE s

\* a faulty variant of Strip: only leading whitespace is removed (str.lstrip)
StripLeftOnly(s) == LStrip(s)

\* str.strip()
Strip(s) == RStrip(LStrip(s))

LowerChar(c) ==
    CASE c = "Y" -> "y"
      [] c = "N" -> "n"
      [] c = "E" -> "e"
      [] c = "S" -> "s"
      [] OTHER   -> c

\* str.lower()
Lower(s) == [i \in 1..Len(s) |-> LowerChar(s[i])]

Spaces(n) == [i \in 1..n |-> " "]

\* the placeholder the push loops refuse: 'your-key-here'
Placeholder == << "y", "o", "u", "r", "-", "k", "e", "y", "-", "h", "e", "r", "e" >>

Production == << "p", "r", "o", "d", "u", "c", "t", "i", "o", "n" >>

\* what an operator may type at a secret prompt, before padding
Cores == { << >>, << "k" >>, Placeholder }

Pads == { p \in (0..MaxPad) \X (0..MaxPad) : p[1] + p[2] <= MaxPad }

\* the lines an operator may type at a secret prompt
Answers == { Spaces(p[1]) \o c \o Spaces(p[2]) : p \in Pads, c \in Cores }

---------------------------------------------------------------------------
(* Trace events                                                            *)

Ev(kind, what, key, val, rc) ==
    [kind |-> kind, what |-> what, key |-> key, val |-> val, rc |-> rc]

Printed(what) == Ev("print", what, "", << >>, "ok")
PrintedWith(what, k, v) == Ev("print", what, k, v, "ok")
Asked(what) == Ev("input", what, "", << >>, "ok")
Ran(what, key, val, rc) == Ev("run", what, key, val, rc)

---------------------------------------------------------------------------
(* generate_secret_key                                                     *)

TokenBytes == 32

\* secrets.token_urlsafe(n): unpadded base64url of n random bytes
TokenLen == (TokenBytes * 8 + 5) \div 6

Tokens == { [i \in 1..TokenLen |-> c] : c \in {"A", "_"} }

---------------------------------------------------------------------------
(* get_production_env_vars                                                 *)

Entry(k, v) == [key |-> k, value |-> v]

Keys(m) == { m[i].key : i \in 1..Len(m) }

Has(m, k) == k \in Keys(m)

Get(m, k) == m[CHOOSE i \in 1..Len(m) : m[i].key = k].value

\* env_vars[k] = v on an insertion-ordered dict
Put(m, k, v) ==
    IF Has(m, k)
    THEN [i \in 1..Len(m) |-> IF m[i].key = k THEN Entry(k, v) ELSE m[i]]
    ELSE Append(m, Entry(k, v))

\* lines 179-185: env_vars.update({...}) on the empty mapping
RequiredVars(token, pk, sk, wh) ==
    << Entry("FLASK_ENV", Production),
       Entry("SECRET_KEY", token),
       Entry("STRIPE_PUBLISHABLE_KEY", pk),
       Entry("STRIPE_SECRET_KEY", sk),
       Entry("STRIPE_WEBHOOK_SECRET", wh) >>

\* a faulty variant of AddOptional: the key is set whatever was typed
AddOptionalAlways(m, k, v) == Put(m, k, v)

\* lines 192-195: "if v: env_vars[k] = v"
AddOptional(m, k, v) == IF v # << >> THEN Put(m, k, v) ELSE m

deployLocals == << platform, exc, url, api_key, made, app_name, ret, idx >>

\* line 172-175
AskStripePublishable(raw) ==
    /\ pc = "env_pk"
    /\ log' = log \o << Printed("Setting up monetization (Stripe)"),
                        Printed("Get your Stripe keys"),
                        Asked("Stripe Publishable Key") >>
    /\ stripe_publishable' = Strip(raw)
    /\ pc' = "env_sk"
    /\ UNCHANGED << deployLocals, stripe_secret, stripe_webhook, alpha_vantage,
                    iex_key, env_vars >>

\* line 176
AskStripeSecret(raw) ==
    /\ pc = "env_sk"
    /\ log' = Append(log, Asked("Stripe Secret Key"))
    /\ stripe_secret' = Strip(raw)
    /\ pc' = "env_wh"
    /\ UNCHANGED << deployLocals, stripe_publishable, stripe_webhook, alpha_vantage,
                    iex_key, env_vars >>

\* line 177
AskStripeWebhook(raw) ==
    /\ pc = "env_wh"
    /\ log' = Append(log, Asked("Stripe Webhook Secret"))
    /\ stripe_webhook' = Strip(raw)
    /\ pc' = "env_update"
    /\ UNCHANGED << deployLocals, stripe_publishable, stripe_secret, alpha_vantage,
                    iex_key, env_vars >>

\* lines 179-188: the generated secret and the required entries
EnvUpdate ==
    /\ pc = "env_update"
    /\ \E token \in Tokens :
          env_vars' = RequiredVars(token, stripe_publishable, stripe_secret,
                                   stripe_webhook)
    /\ log' = Append(log, Printed("Optional: Market Data API Keys"))
    /\ pc' = "env_alpha"
    /\ UNCHANGED << deployLocals, stripe_publishable, stripe_secret, stripe_webhook,
                    alpha_vantage, iex_key, typed >>

\* line 189
AskAlphaVantage(raw) ==
    /\ pc = "env_alpha"
    /\ log' = Append(log, Asked("Alpha Vantage API Key"))
    /\ alpha_vantage' = Strip(raw)
    /\ pc' = "env_iex"
    /\ UNCHANGED << deployLocals, stripe_publishable, stripe_secret, stripe_webhook,
                    iex_key, env_vars >>

\* line 190
AskIex(raw) ==
    /\ pc = "env_iex"
    /\ log' = Append(log, Asked("IEX Cloud API Key"))
    /\ iex_key' = Strip(raw)
    /\ pc' = "env_optional"
    /\ UNCHANGED << deployLocals, stripe_publishable, stripe_secret, stripe_webhook,
                    alpha_vantage, env_vars >>

\* lines 192-197: the optional entries, then return to the caller
EnvReturn ==
    /\ pc = "env_optional"
    /\ env_vars' = AddOptional(AddOptional(env_vars, "ALPHA_VANTAGE_API_KEY",
                                           alpha_vantage),
                               "IEX_API_KEY", iex_key)
    /\ pc' = ret
    /\ idx' = 1
    /\ UNCHANGED << platform, exc, url, api_key, made, app_name, ret, log,
                    stripe_publishable, stripe_secret, stripe_webhook,
                    alpha_vantage, iex_key, typed >>

NoText == << >>

NothingTyped ==
    [p \in {"STRIPE_PUBLISHABLE_KEY", "STRIPE_SECRET_KEY", "STRIPE_WEBHOOK_SECRET",
            "ALPHA_VANTAGE_API_KEY", "IEX_API_KEY"} |-> NoText]

---------------------------------------------------------------------------
(* get_production_env_vars called on its own, every typed line recorded    *)

EnvInit ==
    /\ platform = "none"
    /\ pc = "env_pk"
    /\ log = << >>
    /\ exc = "none"
    /\ url = "NotReturned"
    /\ api_key = NoText
    /\ made = 0
    /\ app_name = NoText
    /\ ret = "env_returned"
    /\ stripe_publishable = NoText
    /\ stripe_secret = NoText
    /\ stripe_webhook = NoText
    /\ alpha_vantage = NoText
    /\ iex_key = NoText
    /\ env_vars = << >>
    /\ idx = 0
    /\ typed = NothingTyped

TypeStripePublishable ==
    \E raw \in Answers :
        /\ AskStripePublishable(raw)
        /\ typed' = [typed EXCEPT !["STRIPE_PUBLISHABLE_KEY"] = raw]

TypeStripeSecret ==
    \E raw \in Answers :
        /\ AskStripeSecret(raw)
        /\ typed' = [typed EXCEPT !["STRIPE_SECRET_KEY"] = raw]

TypeStripeWebhook ==
    \E raw \in Answers :
        /\ AskStripeWebhook(raw)
        /\ typed' = [typed EXCEPT !["STRIPE_WEBHOOK_SECRET"] = raw]

TypeAlphaVantage ==
    \E raw \in Answers :
        /\ AskAlphaVantage(raw)
        /\ typed' = [typed EXCEPT !["ALPHA_VANTAGE_API_KEY"] = raw]

TypeIex ==
    \E raw \in Answers :
        /\ AskIex(raw)
        /\ typed' = [typed EXCEPT !["IEX_API_KEY"] = raw]

EnvNext ==
    \/ TypeStripePublishable
    \/ TypeStripeSecret
    \/ TypeStripeWebhook
    \/ EnvUpdate
    \/ TypeAlphaVantage
    \/ TypeIex
    \/ EnvReturn

SpecEnv == EnvInit /\ [][EnvNext]_vars

---------------------------------------------------------------------------
(* Values                                                                  *)

\* Python's None, and "the routine has not returned yet"; neither is a text
None == << "None" >>
NotReturned == << "NotReturned" >>

\* "if url:"
Truthy(v) == v # None /\ v # NoText

CheckRailway ==
    << "C", "h", "e", "c", "k", " ", "R", "a", "i", "l", "w", "a", "y", " ", "d", "a", "s", "h", "b", "o", "a", "r", "d" >>

ManualSetup ==
    << "M", "a", "n", "u", "a", "l", " ", "s", "e", "t", "u", "p", " ", "r", "e", "q", "u", "i", "r", "e", "d" >>

Https == << "h", "t", "t", "p", "s", ":", "/", "/" >>

VercelApp == << "v", "e", "r", "c", "e", "l", ".", "a", "p", "p" >>

WebUrl == << "W", "e", "b", " ", "U", "R", "L", ":" >>

\* "sub in s"
Contains(s, sub) ==
    \E i \in 1..(Len(s) - Len(sub) + 1) : SubSeq(s, i, i + Len(sub) - 1) = sub

\* s.split(sub)[1]: the text between the first occurrence of sub and the next
FirstAt(s, sub) ==
    CHOOSE i \in 1..(Len(s) - Len(sub) + 1) :
        /\ SubSeq(s, i, i + Len(sub) - 1) = sub
        /\ \A j \in 1..(i - 1) : SubSeq(s, j, j + Len(sub) - 1) # sub

SplitSecond(s, sub) ==
    LET rest == SubSeq(s, FirstAt(s, sub) + Len(sub), Len(s))
    IN  IF Contains(rest, sub) THEN SubSeq(rest, 1, FirstAt(rest, sub) - 1) ELSE rest

\* lines 53-57: the first line holding both 'https://' and 'vercel.app', stripped
VercelUrl(lines) ==
    LET hits == { i \in 1..Len(lines) :
                     Contains(lines[i], Https) /\ Contains(lines[i], VercelApp) }
    IN  IF hits = {} THEN None
        ELSE Strip(lines[CHOOSE i \in hits : \A j \in hits : i <= j])

\* lines 102-106: what follows 'Web URL:' on the first line holding it, stripped
HerokuUrl(lines) ==
    LET hits == { i \in 1..Len(lines) : Contains(lines[i], WebUrl) }
    IN  IF hits = {} THEN None
        ELSE Strip(SplitSecond(lines[CHOOSE i \in hits : \A j \in hits : i <= j],
                               WebUrl))

\* what "vercel --prod" may write to stdout, split into lines
VercelStdouts ==
    { << NoText >>,
      << << "E", "r", "r", "o", "r", ":", " ", "n", "o", " ", "t", "o", "k", "e", "n" >> >>,
      << << "I", "n", "s", "p", "e", "c", "t", ":", " ", "h", "t", "t", "p", "s", ":", "/", "/", "v", "e", "r", "c", "e", "l", ".", "c", "o", "m", "/", "x" >>,
         << " ", " ", "h", "t", "t", "p", "s", ":", "/", "/", "o", "p", "t", "i", "o", "n", "s", "c", "o", "p", "e", ".", "v", "e", "r", "c", "e", "l", ".", "a", "p", "p", " " >> >> }

\* what "heroku info" may write to stdout, split into lines
HerokuStdouts ==
    { << NoText >>,
      << << "=", "=", "=", " ", "o", "p", "t", "i", "o", "n", "s", "c", "o", "p", "e" >>,
         << "W", "e", "b", " ", "U", "R", "L", ":", " ", "h", "t", "t", "p", "s", ":", "/", "/", "o", "p", "t", "i", "o", "n", "s", "c", "o", "p", "e", ".", "h", "e", "r", "o", "k", "u", "a", "p", "p", ".", "c", "o", "m", "/", " " >> >> }

---------------------------------------------------------------------------
(* Operator input other than secrets                                       *)

Padded(cores) == { Spaces(p[1]) \o c \o Spaces(p[2]) : p \in Pads, c \in cores }

\* answers to "Set up Stripe products? (y/N)"
YesNo == Padded({ NoText, << "y" >>, << "Y" >>, << "n" >>, << "y", "e", "s" >> })

\* answers to "Enter your Stripe Secret Key"
SdkKeys == Padded({ NoText, << "s", "k" >> })

\* answers to "Enter Heroku app name"
AppNames == Padded({ NoText, << "a", "p", "p" >> })

\* how a version probe can end: exit 0, non-zero exit, executable missing
ProbeOutcomes == { "ok", "nonzero", "notfound" }

\* how any other command can end
ExitOutcomes == { "ok", "nonzero" }

---------------------------------------------------------------------------
(* __init__                                                                *)

\* a faulty variant of PlatformsTable: two routines registered under each other's name
PlatformsTableSwapped ==
    << Entry("vercel", "deploy_vercel"),
       Entry("heroku", "deploy_railway"),
       Entry("railway", "deploy_heroku"),
       Entry("render", "deploy_render") >>

\* a faulty variant of PlatformsTable: one platform left out
PlatformsTableShort ==
    << Entry("vercel", "deploy_vercel"),
       Entry("heroku", "deploy_heroku"),
       Entry("railway", "deploy_railway") >>

\* self.platforms, an insertion-ordered dict
PlatformsTable ==
    << Entry("vercel", "deploy_vercel"),
       Entry("heroku", "deploy_heroku"),
       Entry("railway", "deploy_railway"),
       Entry("render", "deploy_render") >>

\* list(self.platforms.keys())
KeyList(m) == [i \in 1..Len(m) |-> m[i].key]

\* the strings deploy() is called with
PlatformArgs == { "vercel", "heroku", "railway", "render", "Vercel", "netlify", "aws" }

---------------------------------------------------------------------------
(* subprocess.run                                                          *)

envLocals == << stripe_publishable, stripe_secret, stripe_webhook, alpha_vantage,
                iex_key, env_vars >>

\* a faulty variant of RunChecked: check=True left out, the exit status is ignored
RunUnchecked(what, key, val, next) ==
    \E rc \in ExitOutcomes :
        /\ log' = Append(log, Ran(what, key, val, rc))
        /\ pc' = next
        /\ exc' = exc

\* subprocess.run([...], check=True): a non-zero exit raises CalledProcessError,
\* which nothing in the script catches
RunChecked(what, key, val, next) ==
    \E rc \in ExitOutcomes :
        /\ log' = Append(log, Ran(what, key, val, rc))
        /\ IF rc = "ok"
           THEN pc' = next /\ exc' = exc
           ELSE pc' = "raised" /\ exc' = "CalledProcessError"

\* a faulty variant of Eligible: the placeholder is not filtered
EligibleNonEmpty(value) == value # NoText


\* "if value and value != 'your-key-here'"
Eligible(value) == value # NoText /\ value # Placeholder

\* one iteration of "for key, value in env_vars.items()": push the entry if it is
\* eligible; after the last entry go on to next
PushStep(what, here, next) ==
    /\ idx <= Len(env_vars)
    /\ idx' = idx + 1
    /\ LET e     == env_vars[idx]
           after == IF idx = Len(env_vars) THEN next ELSE here
       IN  IF Eligible(e.value)
           THEN RunChecked(what, e.key, e.value, after)
           ELSE pc' = after /\ UNCHANGED << log, exc >>
    /\ UNCHANGED << platform, url, api_key, made, app_name, ret, envLocals, typed >>

---------------------------------------------------------------------------
(* deploy                                                                  *)

Init ==
    /\ platform \in PlatformArgs
    /\ pc = "deploy"
    /\ log = << >>
    /\ exc = "none"
    /\ url = NotReturned
    /\ api_key = NoText
    /\ made = 0
    /\ app_name = NoText
    /\ ret = "none"
    /\ stripe_publishable = NoText
    /\ stripe_secret = NoText
    /\ stripe_webhook = NoText
    /\ alpha_vantage = NoText
    /\ iex_key = NoText
    /\ env_vars = << >>
    /\ idx = 0
    /\ typed = NothingTyped

\* lines 271-277: the banner, and the early return on an unknown platform
DeployEnter ==
    /\ pc = "deploy"
    /\ IF ~Has(PlatformsTable, platform)
       THEN /\ log' = log \o << PrintedWith("OptionScope Deployment to", platform, NoText),
                                PrintedWith("Unsupported platform", platform, NoText),
                                PrintedWith("Supported platforms", "",
                                            KeyList(PlatformsTable)) >>
            /\ pc' = "done"
       ELSE /\ log' = Append(log, PrintedWith("OptionScope Deployment to", platform,
                                              NoText))
            /\ pc' = "ask_setup"
    /\ UNCHANGED << deployLocals, envLocals, typed >>

\* lines 280-282
DeployAskSetup ==
    /\ pc = "ask_setup"
    /\ \E raw \in YesNo :
          pc' = IF Lower(Strip(raw)) = << "y" >> THEN "setup_stripe_products"
                                                 ELSE "dispatch"
    /\ log' = Append(log, Asked("Set up Stripe products? (y/N)"))
    /\ UNCHANGED << deployLocals, envLocals, typed >>

\* line 285: self.platforms[platform]()
DeployDispatch ==
    /\ pc = "dispatch"
    /\ log' = Append(log, Ev("call", Get(PlatformsTable, platform), "", NoText, "ok"))
    /\ pc' = Get(PlatformsTable, platform)
    /\ UNCHANGED << deployLocals, envLocals, typed >>

\* lines 287-307: the summary, printed only for a truthy result
DeploySummary ==
    /\ pc = "returned"
    /\ log' = IF Truthy(url)
              THEN log \o << Printed("Deployment Complete!"),
                             PrintedWith("Live URL", "", url),
                             PrintedWith("Pricing Page", "", url),
                             PrintedWith("Dashboard", "", url),
                             PrintedWith("Admin", "", url),
                             Printed("Next Steps"),
                             Printed("Monetization Tips") >>
              ELSE log
    /\ pc' = "done"
    /\ UNCHANGED << deployLocals, envLocals, typed >>

---------------------------------------------------------------------------
(* setup_stripe_products                                                   *)

\* the six creation calls of lines 218-257, in source order
StripeCalls ==
    << "Product.create OptionScope Pro",
       "Price.create Pro 2999 usd month",
       "Price.create Pro 29999 usd year",
       "Product.create OptionScope Enterprise",
       "Price.create Enterprise 9999 usd month",
       "Price.create Enterprise 99999 usd year" >>

\* lines 206-214
StripeAskKey ==
    /\ pc = "setup_stripe_products"
    /\ \E raw \in SdkKeys :
          IF Strip(raw) = NoText
          THEN /\ log' = log \o << Printed("Setting up Stripe products..."),
                                   Asked("Enter your Stripe Secret Key"),
                                   Printed("Skipping Stripe setup") >>
               /\ pc' = "dispatch"
               /\ api_key' = api_key
          ELSE /\ log' = log \o << Printed("Setting up Stripe products..."),
                                   Asked("Enter your Stripe Secret Key") >>
               /\ pc' = "stripe_create"
               /\ api_key' = Strip(raw)
    /\ made' = 0
    /\ UNCHANGED << platform, exc, url, app_name, ret, idx, envLocals, typed >>

\* a faulty variant of StripeRaised: the handler swallows the error and the try body goes on
StripeRaisedContinue(n) ==
    /\ log' = log \o << Ev("stripe", StripeCalls[n], "", NoText, "raised"),
                        Printed("Error setting up Stripe") >>
    /\ made' = n
    /\ pc' = IF n = Len(StripeCalls) THEN "dispatch" ELSE "stripe_create"

\* lines 266-267: any exception of call n ends the try body; the message is
\* printed and the routine returns
StripeRaised(n) ==
    /\ log' = log \o << Ev("stripe", StripeCalls[n], "", NoText, "raised"),
                        Printed("Error setting up Stripe") >>
    /\ made' = made
    /\ pc' = "dispatch"

\* lines 216-264: the next creation call; after the sixth the ids are printed
StripeCreate ==
    /\ pc = "stripe_create"
    /\ LET n == made + 1
       IN  \/ /\ log' = IF n = Len(StripeCalls)
                        THEN log \o << Ev("stripe", StripeCalls[n], "", NoText, "ok"),
                                       Printed("Stripe products created successfully!"),
                                       Printed("Add these to your environment variables") >>
                        ELSE Append(log, Ev("stripe", StripeCalls[n], "", NoText, "ok"))
              /\ made' = n
              /\ pc' = IF n = Len(StripeCalls) THEN "dispatch" ELSE "stripe_create"
           \/ StripeRaised(n)
    /\ UNCHANGED << platform, exc, url, api_key, app_name, ret, idx, envLocals, typed >>

---------------------------------------------------------------------------
(* Version probes: try: subprocess.run([cli, '--version'], check=True,     *)
(* capture_output=True) except (CalledProcessError, FileNotFoundError)     *)

\* a faulty variant of ProbeInstall: the missing CLI is reported and the routine returns
ProbeNoInstall(cli, banner, installing, found, install) ==
    \E rc \in ProbeOutcomes :
        IF rc = "ok"
        THEN /\ log' = log \o << Printed(banner), Ran(cli, "", NoText, rc) >>
             /\ pc' = found
             /\ url' = url
        ELSE /\ log' = log \o << Printed(banner), Ran(cli, "", NoText, rc),
                                 Printed(installing) >>
             /\ pc' = "returned"
             /\ url' = None

\* lines 28-32 and 116-120: a failed probe leads to the install step
ProbeInstall(cli, banner, installing, found, install) ==
    \E rc \in ProbeOutcomes :
        IF rc = "ok"
        THEN /\ log' = log \o << Printed(banner), Ran(cli, "", NoText, rc) >>
             /\ pc' = found
             /\ url' = url
        ELSE /\ log' = log \o << Printed(banner), Ran(cli, "", NoText, rc),
                                 Printed(installing) >>
             /\ pc' = install
             /\ url' = url

---------------------------------------------------------------------------
(* deploy_vercel                                                           *)

\* lines 26-32
VercelProbe ==
    /\ pc = "deploy_vercel"
    /\ ProbeInstall("vercel --version", "Deploying OptionScope to Vercel...",
                    "Vercel CLI not found. Installing...", "v_copy", "v_install")
    /\ UNCHANGED << platform, exc, api_key, made, app_name, ret, idx, envLocals, typed >>

\* line 33
VercelInstall ==
    /\ pc = "v_install"
    /\ RunChecked("npm install -g vercel", "", NoText, "v_copy")
    /\ UNCHANGED << platform, url, api_key, made, app_name, ret, idx, envLocals, typed >>

\* lines 36-41: copy the requirements, then call get_production_env_vars
VercelCopy ==
    /\ pc = "v_copy"
    /\ RunChecked("cp requirements-vercel.txt requirements.txt", "", NoText, "env_pk")
    /\ ret' = "v_env"
    /\ UNCHANGED << platform, url, api_key, made, app_name, idx, envLocals, typed >>

\* line 41
VercelEnv ==
    /\ pc = "v_env"
    /\ log' = Append(log, Printed("Setting up environment variables..."))
    /\ pc' = "v_push"
    /\ UNCHANGED << deployLocals, envLocals, typed >>

\* lines 42-44
VercelPush ==
    /\ pc = "v_push"
    /\ PushStep("vercel env add", "v_push", "v_deploy")

\* lines 47-66: the deploy command, run without check=True
VercelDeploy ==
    /\ pc = "v_deploy"
    /\ \/ \E lines \in VercelStdouts :
             /\ log' = log \o << Printed("Deploying to Vercel..."),
                                 Ran("vercel --prod", "", NoText, "ok"),
                                 Printed("Deployment successful!"),
                                 PrintedWith("Your OptionScope is live at", "",
                                             VercelUrl(lines)),
                                 PrintedWith("Set up Stripe webhooks at", "",
                                             VercelUrl(lines)) >>
             /\ url' = VercelUrl(lines)
       \/ /\ log' = log \o << Printed("Deploying to Vercel..."),
                              Ran("vercel --prod", "", NoText, "nonzero"),
                              Printed("Deployment failed") >>
          /\ url' = None
    /\ pc' = "returned"
    /\ UNCHANGED << platform, exc, api_key, made, app_name, ret, idx, envLocals, typed >>

---------------------------------------------------------------------------
(* deploy_heroku                                                           *)

\* lines 70-77: a failed probe ends the routine
HerokuProbe ==
    /\ pc = "deploy_heroku"
    /\ \E rc \in ProbeOutcomes :
          IF rc = "ok"
          THEN /\ log' = log \o << Printed("Deploying OptionScope to Heroku..."),
                                   Ran("heroku --version", "", NoText, rc) >>
               /\ pc' = "h_ask_app"
               /\ url' = url
          ELSE /\ log' = log \o << Printed("Deploying OptionScope to Heroku..."),
                                   Ran("heroku --version", "", NoText, rc),
                                   Printed("Heroku CLI not found. Please install it first.") >>
               /\ pc' = "returned"
               /\ url' = None
    /\ UNCHANGED << platform, exc, api_key, made, app_name, ret, idx, envLocals, typed >>

\* line 80
HerokuAskApp ==
    /\ pc = "h_ask_app"
    /\ \E raw \in AppNames : app_name' = Strip(raw)
    /\ log' = Append(log, Asked("Enter Heroku app name"))
    /\ pc' = "h_create"
    /\ UNCHANGED << platform, exc, url, api_key, made, ret, idx, envLocals, typed >>

\* lines 81-84
HerokuCreate ==
    /\ pc = "h_create"
    /\ RunChecked("heroku create", "", app_name, "h_addon")
    /\ UNCHANGED << platform, url, api_key, made, app_name, ret, idx, envLocals, typed >>

\* lines 87-90: the addon, then call get_production_env_vars
HerokuAddon ==
    /\ pc = "h_addon"
    /\ RunChecked("heroku addons:create heroku-postgresql:hobby-dev", "", NoText,
                  "env_pk")
    /\ ret' = "h_push"
    /\ UNCHANGED << platform, url, api_key, made, app_name, idx, envLocals, typed >>

\* lines 91-93
HerokuPush ==
    /\ pc = "h_push"
    /\ PushStep("heroku config:set", "h_push", "h_git_add")

\* line 96
HerokuGitAdd ==
    /\ pc = "h_git_add"
    /\ RunChecked("git add .", "", NoText, "h_git_commit")
    /\ UNCHANGED << platform, url, api_key, made, app_name, ret, idx, envLocals, typed >>

\* line 97
HerokuGitCommit ==
    /\ pc = "h_git_commit"
    /\ RunChecked("git commit -m Deploy OptionScope", "", NoText, "h_git_push")
    /\ UNCHANGED << platform, url, api_key, made, app_name, ret, idx, envLocals, typed >>

\* line 98: the deploy command
HerokuGitPush ==
    /\ pc = "h_git_push"
    /\ RunChecked("git push heroku main", "", NoText, "h_info")
    /\ UNCHANGED << platform, url, api_key, made, app_name, ret, idx, envLocals, typed >>

\* lines 101-110: heroku info runs without check=True and its status is not read
HerokuInfo ==
    /\ pc = "h_info"
    /\ \E rc \in ExitOutcomes, lines \in HerokuStdouts :
          /\ log' = log \o << Ran("heroku info", "", NoText, rc),
                              Printed("Deployment successful!"),
                              PrintedWith("Your OptionScope is live at", "",
                                          HerokuUrl(lines)) >>
          /\ url' = HerokuUrl(lines)
    /\ pc' = "returned"
    /\ UNCHANGED << platform, exc, api_key, made, app_name, ret, idx, envLocals, typed >>

---------------------------------------------------------------------------
(* deploy_railway                                                          *)

\* lines 114-120
RailwayProbe ==
    /\ pc = "deploy_railway"
    /\ ProbeInstall("railway --version", "Deploying OptionScope to Railway...",
                    "Railway CLI not found. Installing...", "r_login", "r_install")
    /\ UNCHANGED << platform, exc, api_key, made, app_name, ret, idx, envLocals, typed >>

\* line 121
RailwayInstall ==
    /\ pc = "r_install"
    /\ RunChecked("npm install -g @railway/cli", "", NoText, "r_login")
    /\ UNCHANGED << platform, url, api_key, made, app_name, ret, idx, envLocals, typed >>

\* line 124
RailwayLogin ==
    /\ pc = "r_login"
    /\ RunChecked("railway login", "", NoText, "r_init")
    /\ UNCHANGED << platform, url, api_key, made, app_name, ret, idx, envLocals, typed >>

\* lines 125-128: init, then call get_production_env_vars
RailwayInit ==
    /\ pc = "r_init"
    /\ RunChecked("railway init", "", NoText, "env_pk")
    /\ ret' = "r_push"
    /\ UNCHANGED << platform, url, api_key, made, app_name, idx, envLocals, typed >>

\* lines 129-131
RailwayPush ==
    /\ pc = "r_push"
    /\ PushStep("railway variables set", "r_push", "r_up")

\* lines 134-138: the deploy command, then the fixed result
RailwayUp ==
    /\ pc = "r_up"
    /\ \E rc \in ExitOutcomes :
          IF rc = "ok"
          THEN /\ log' = log \o << Ran("railway up", "", NoText, rc),
                                   Printed("Deployment successful!"),
                                   Printed("Check Railway dashboard for your app URL") >>
               /\ url' = CheckRailway
               /\ pc' = "returned"
               /\ exc' = exc
          ELSE /\ log' = Append(log, Ran("railway up", "", NoText, rc))
               /\ url' = url
               /\ pc' = "raised"
               /\ exc' = "CalledProcessError"
    /\ UNCHANGED << platform, api_key, made, app_name, ret, idx, envLocals, typed >>

---------------------------------------------------------------------------
(* deploy_render                                                           *)

\* lines 142-166: no command and no prompt, only the file
RenderWrite ==
    /\ pc = "deploy_render"
    /\ log' = log \o << Printed("Setting up Render deployment..."),
                        Ev("write", "render.yaml", "", NoText, "ok"),
                        Printed("render.yaml created!"),
                        Printed("Connect your GitHub repo to Render dashboard to deploy") >>
    /\ url' = ManualSetup
    /\ pc' = "returned"
    /\ UNCHANGED << platform, exc, api_key, made, app_name, ret, idx, envLocals, typed >>

---------------------------------------------------------------------------
(* The secret prompts inside a deployment                                  *)

InputStripePublishable == \E raw \in Answers : AskStripePublishable(raw) /\ typed' = typed

InputStripeSecret == \E raw \in Answers : AskStripeSecret(raw) /\ typed' = typed

InputStripeWebhook == \E raw \in Answers : AskStripeWebhook(raw) /\ typed' = typed

InputAlphaVantage == \E raw \in Answers : AskAlphaVantage(raw) /\ typed' = typed

InputIex == \E raw \in Answers : AskIex(raw) /\ typed' = typed

Next ==
    \/ DeployEnter
    \/ DeployAskSetup
    \/ StripeAskKey
    \/ StripeCreate
    \/ DeployDispatch
    \/ VercelProbe
    \/ VercelInstall
    \/ VercelCopy
    \/ VercelEnv
    \/ VercelPush
    \/ VercelDeploy
    \/ HerokuProbe
    \/ HerokuAskApp
    \/ HerokuCreate
    \/ HerokuAddon
    \/ HerokuPush
    \/ HerokuGitAdd
    \/ HerokuGitCommit
    \/ HerokuGitPush
    \/ HerokuInfo
    \/ RailwayProbe
    \/ RailwayInstall
    \/ RailwayLogin
    \/ RailwayInit
    \/ RailwayPush
    \/ RailwayUp
    \/ RenderWrite
    \/ InputStripePublishable
    \/ InputStripeSecret
    \/ InputStripeWebhook
    \/ EnvUpdate
    \/ InputAlphaVantage
    \/ InputIex
    \/ EnvReturn
    \/ DeploySummary

Spec == Init /\ [][Next]_vars

---------------------------------------------------------------------------
(* Reading the trace                                                       *)

At(P(_)) == { i \in 1..Len(log) : P(log[i]) }

FourNames == { "vercel", "heroku", "railway", "render" }

CliNames == { "vercel", "heroku", "railway" }

Finished == pc \in { "done", "raised" }

IsCall(e) == e.kind = "call"

IsBanner(e) ==
    e.kind = "print" /\ e.what \in { "Deploying OptionScope to Vercel...",
                                     "Deploying OptionScope to Heroku...",
                                     "Deploying OptionScope to Railway...",
                                     "Setting up Render deployment..." }

RoutineOf(p) ==
    CASE p = "vercel"  -> "deploy_vercel"
      [] p = "heroku"  -> "deploy_heroku"
      [] p = "railway" -> "deploy_railway"
      [] p = "render"  -> "deploy_render"

BannerOf(p) ==
    CASE p = "vercel"  -> "Deploying OptionScope to Vercel..."
      [] p = "heroku"  -> "Deploying OptionScope to Heroku..."
      [] p = "railway" -> "Deploying OptionScope to Railway..."
      [] p = "render"  -> "Setting up Render deployment..."

AnsweredYes == \E i \in 1..Len(log) : log[i] = Printed("Setting up Stripe products...")

---------------------------------------------------------------------------
\* C1: for each of the four platform names deploy(platform) runs the routine of
\* that name, once the dispatcher has been reached exactly once, and never any of
\* the other three, whether or not the operator asked for the billing setup.
C1_DispatchMatches ==
    platform \in FourNames =>
        /\ \A i \in At(IsCall) : log[i].what = RoutineOf(platform)
        /\ \A i \in At(IsBanner) : log[i].what = BannerOf(platform)
        /\ Cardinality(At(IsCall)) <= 1
        /\ Cardinality(At(IsBanner)) <= 1
        /\ Cardinality(At(IsBanner)) <= Cardinality(At(IsCall))
        /\ Finished => Cardinality(At(IsCall)) = 1 /\ Cardinality(At(IsBanner)) = 1

\* C1 witness: a finished heroku run in which the operator asked for billing setup
C1_Witness ==
    /\ platform = "heroku"
    /\ pc = "done"
    /\ AnsweredYes
    /\ made = Len(StripeCalls)
    /\ \E i \in At(IsBanner) : log[i].what = "Deploying OptionScope to Heroku..."

\* C2: an unsupported platform string runs no routine, prompts for nothing, runs
\* no command and makes no billing call; deploy() prints the 'Unsupported
\* platform' line and the list of all four supported names, and returns.
C2_Unsupported ==
    platform \notin FourNames =>
        /\ \A i \in 1..Len(log) : log[i].kind = "print"
        /\ pc \in { "deploy", "done" }
        /\ exc = "none"
        /\ url = NotReturned
        /\ pc = "done" =>
              /\ \E i \in 1..Len(log) :
                    log[i].what = "Unsupported platform" /\ log[i].key = platform
              /\ \E i \in 1..Len(log) :
                    /\ log[i].what = "Supported platforms"
                    /\ \A n \in FourNames : \E j \in 1..Len(log[i].val) : log[i].val[j] = n
              /\ log[Len(log)].what = "Supported platforms"

\* C2 witness: deploy('netlify') has returned
C2_Witness == platform = "netlify" /\ pc = "done" /\ Len(log) = 3

---------------------------------------------------------------------------
IsDeployCommand(e) ==
    e.kind = "run" /\ e.what \in { "vercel --prod", "git push heroku main", "railway up" }

IsLiveLine(e) ==
    e.kind = "print" /\ e.what \in { "Your OptionScope is live at", "Live URL" }

RoutineReturnedNone == pc \in { "returned", "done" } /\ url = None /\ exc = "none"

\* C3: when the deploy command of the vercel, heroku or railway routine exits
\* non-zero, the routine returns None and neither the 'is live at' line nor the
\* 'Live URL' summary is printed.
C3_FailedDeployReturnsNone ==
    (\E i \in At(IsDeployCommand) : log[i].rc = "nonzero") =>
        /\ RoutineReturnedNone
        /\ At(IsLiveLine) = {}

---------------------------------------------------------------------------
(* str.strip stated without computing it                                   *)

Blank(raw) == \A i \in 1..Len(raw) : raw[i] \in Whitespace

\* v is raw without its leading and trailing whitespace
IsStripOf(v, raw) ==
    /\ v = NoText \/ (v[1] \notin Whitespace /\ v[Len(v)] \notin Whitespace)
    /\ \E i \in 0..(Len(raw) - Len(v)) :
          /\ SubSeq(raw, i + 1, i + Len(v)) = v
          /\ \A j \in 1..Len(raw) : (j <= i \/ j > i + Len(v)) => raw[j] \in Whitespace

OptionalKeys == { "ALPHA_VANTAGE_API_KEY", "IEX_API_KEY" }

PromptedKeys ==
    { "STRIPE_PUBLISHABLE_KEY", "STRIPE_SECRET_KEY", "STRIPE_WEBHOOK_SECRET" }
        \cup OptionalKeys

\* C4: in the mapping get_production_env_vars returns, each optional key is
\* present exactly when the line typed at its prompt is not blank once stripped,
\* and then holds that line stripped; whatever was typed at the other prompts.
C4_OptionalKeys ==
    pc = "env_returned" =>
        \A k \in OptionalKeys :
            /\ Has(env_vars, k) <=> ~Blank(typed[k])
            /\ Has(env_vars, k) => IsStripOf(Get(env_vars, k), typed[k])

\* C4 witness: one optional answer padded and kept, the other blank and left out
C4_Witness ==
    /\ pc = "env_returned"
    /\ typed["ALPHA_VANTAGE_API_KEY"] = << "k", " " >>
    /\ typed["IEX_API_KEY"] = << " " >>
    /\ Has(env_vars, "ALPHA_VANTAGE_API_KEY")
    /\ Get(env_vars, "ALPHA_VANTAGE_API_KEY") = << "k" >>
    /\ ~Has(env_vars, "IEX_API_KEY")

\* C5 as stated: whatever is typed at the five prompts, the mapping returned by
\* get_production_env_vars holds no entry whose value is the placeholder.
C5_NoPlaceholderInMapping ==
    pc = "env_returned" => \A i \in 1..Len(env_vars) : env_vars[i].value # Placeholder

\* C5 amended: the mapping returned holds the placeholder under exactly those
\* prompted keys at whose prompt the operator typed the placeholder (whitespace
\* around it aside), and never under FLASK_ENV or SECRET_KEY.
C5_PlaceholderOnlyAsTyped ==
    pc = "env_returned" =>
        /\ \A i \in 1..Len(env_vars) :
              env_vars[i].value = Placeholder =>
                 /\ env_vars[i].key \in PromptedKeys
                 /\ IsStripOf(Placeholder, typed[env_vars[i].key])
        /\ \A k \in PromptedKeys :
              IsStripOf(Placeholder, typed[k]) =>
                 Has(env_vars, k) /\ Get(env_vars, k) = Placeholder

\* C5 witness: the placeholder typed at a required and at an optional prompt
C5_Witness ==
    /\ pc = "env_returned"
    /\ typed["STRIPE_SECRET_KEY"] = Placeholder \o << " " >>
    /\ typed["IEX_API_KEY"] = << " " >> \o Placeholder
    /\ Get(env_vars, "STRIPE_SECRET_KEY") = Placeholder
    /\ Has(env_vars, "IEX_API_KEY")
    /\ Get(env_vars, "IEX_API_KEY") = Placeholder

---------------------------------------------------------------------------
IsPush(e) ==
    e.kind = "run" /\ e.what \in { "vercel env add", "heroku config:set",
                                   "railway variables set" }

PushCommandOf(p) ==
    CASE p = "vercel"  -> "vercel env add"
      [] p = "heroku"  -> "heroku config:set"
      [] p = "railway" -> "railway variables set"

\* the push loop has run to its end: the mapping is collected, control is past
\* the loop, and no push failed
PushingDone ==
    /\ env_vars # << >>
    /\ pc \notin { "env_alpha", "env_iex", "env_optional", "v_env", "v_push",
                   "h_push", "r_push" }
    /\ \A i \in At(IsPush) : log[i].rc = "ok"

Pushable(e) == e.value # NoText /\ e.value # Placeholder

\* C6: in the vercel, heroku and railway routines no variable is ever pushed with
\* an empty or placeholder value; no key is pushed twice; and once the loop has
\* ended without a failed push, the pushes are exactly the other entries of the
\* collected mapping, each once, in the mapping's order.
C6_Pushes ==
    /\ \A i \in At(IsPush) :
          /\ log[i].val # NoText
          /\ log[i].val # Placeholder
          /\ log[i].what = PushCommandOf(platform)
          /\ Has(env_vars, log[i].key) /\ Get(env_vars, log[i].key) = log[i].val
    /\ \A i, j \in At(IsPush) : log[i].key = log[j].key => i = j
    /\ PushingDone =>
          LET pushed == SelectSeq(log, IsPush)
              wanted == SelectSeq(env_vars, Pushable)
          IN  /\ Len(pushed) = Len(wanted)
              /\ \A n \in 1..Len(wanted) :
                    pushed[n].key = wanted[n].key /\ pushed[n].val = wanted[n].value

\* C6 witness: a finished heroku run whose mapping holds a blank value, a
\* placeholder and an optional key, with every other entry pushed
C6_Witness ==
    /\ platform = "heroku"
    /\ pc = "done"
    /\ PushingDone
    /\ Get(env_vars, "STRIPE_PUBLISHABLE_KEY") = NoText
    /\ Get(env_vars, "STRIPE_SECRET_KEY") = Placeholder
    /\ Has(env_vars, "IEX_API_KEY") /\ Get(env_vars, "IEX_API_KEY") = << "k" >>
    /\ Cardinality(At(IsPush)) = 4

---------------------------------------------------------------------------
IsStripe(e) == e.kind = "stripe"

\* the order the claim gives: Pro product, Pro monthly, Pro yearly, Enterprise
\* product, Enterprise monthly, Enterprise yearly
CreationOrder ==
    << "Product.create OptionScope Pro",
       "Price.create Pro 2999 usd month",
       "Price.create Pro 29999 usd year",
       "Product.create OptionScope Enterprise",
       "Price.create Enterprise 9999 usd month",
       "Price.create Enterprise 99999 usd year" >>

InBillingSetup == pc \in { "setup_stripe_products", "stripe_create" }

\* C7: with a non-blank key setup_stripe_products attempts the six creation calls
\* in the fixed order; a call that raises is the last one made, nothing created
\* is undone, the error message is printed right after it, the routine returns,
\* and deploy() goes on to invoke the selected platform routine.
C7_StripeSetup ==
    LET calls == SelectSeq(log, IsStripe)
    IN  /\ Len(calls) <= Len(CreationOrder)
        /\ \A n \in 1..Len(calls) : calls[n].what = CreationOrder[n]
        /\ \A n \in 1..Len(calls) : calls[n].rc = "raised" => n = Len(calls)
        /\ calls # << >> => api_key # NoText
        /\ made = Cardinality({ n \in 1..Len(calls) : calls[n].rc = "ok" })
        /\ \A i \in At(IsStripe) :
              log[i].rc = "raised" =>
                 /\ i < Len(log)
                 /\ log[i + 1] = Printed("Error setting up Stripe")
                 /\ ~InBillingSetup
                 /\ Len(log) >= i + 2 => IsCall(log[i + 2])
                 /\ Finished => Cardinality(At(IsCall)) = 1
        /\ (api_key # NoText /\ ~InBillingSetup
              /\ \A n \in 1..Len(calls) : calls[n].rc = "ok")
           => Len(calls) = Len(CreationOrder)

\* C7 witness: the fourth creation call raised after three objects were created,
\* and the run went on through the selected routine to its end
C7_Witness ==
    /\ pc = "done"
    /\ made = 3
    /\ \E i \in At(IsStripe) :
          log[i].rc = "raised" /\ log[i].what = "Product.create OptionScope Enterprise"
    /\ Cardinality(At(IsCall)) = 1
    /\ Cardinality(At(IsBanner)) = 1

---------------------------------------------------------------------------
IsRun(e) == e.kind = "run"

IsProbe(e) ==
    e.kind = "run" /\ e.what \in { "vercel --version", "heroku --version",
                                   "railway --version" }

\* C8: whichever command of the selected routine exits non-zero, the failure is
\* printed and the routine returns None: no exception escapes deploy() and the
\* process does not end with a non-zero exit.
C8_FailuresReturnNone ==
    /\ exc = "none"
    /\ (\E i \in At(IsRun) : ~IsProbe(log[i]) /\ log[i].what # "heroku info"
                             /\ log[i].rc = "nonzero")
       => /\ RoutineReturnedNone
          /\ log[Len(log)].kind = "print"

---------------------------------------------------------------------------
IsInstall(e) ==
    e.kind = "run" /\ e.what \in { "npm install -g vercel",
                                   "npm install -g @railway/cli" }

InstallOf(p) ==
    CASE p = "vercel"  -> "npm install -g vercel"
      [] p = "railway" -> "npm install -g @railway/cli"

AfterInstallOf(p) ==
    CASE p = "vercel"  -> "cp requirements-vercel.txt requirements.txt"
      [] p = "railway" -> "railway login"

ProbeFailed == \E i \in At(IsProbe) : log[i].rc # "ok"

ProbeOk == \E i \in At(IsProbe) : log[i].rc = "ok"

\* C9: after a failed version probe the vercel and railway routines run their
\* npm install once, right away, and when it succeeds go on with the next command
\* of the routine; the heroku routine returns None at once, with no prompt, no
\* further command and no push; after a successful probe nothing is installed.
C9_ProbeOutcome ==
    /\ Cardinality(At(IsProbe)) <= 1
    /\ ProbeOk => At(IsInstall) = {}
    /\ (ProbeFailed /\ platform \in { "vercel", "railway" }) =>
          /\ Cardinality(At(IsInstall)) <= 1
          /\ pc \notin { "v_install", "r_install" } => Cardinality(At(IsInstall)) = 1
          /\ \A i \in At(IsInstall) :
                /\ log[i].what = InstallOf(platform)
                /\ i > 2 /\ IsProbe(log[i - 2]) /\ log[i - 1].kind = "print"
                /\ log[i].rc = "ok" =>
                      IF Len(log) = i
                      THEN pc \in { "v_copy", "r_login" }
                      ELSE IsRun(log[i + 1]) /\ log[i + 1].what = AfterInstallOf(platform)
    /\ (ProbeFailed /\ platform = "heroku") =>
          /\ pc \in { "returned", "done" }
          /\ url = None
          /\ exc = "none"
          /\ At(IsInstall) = {}
          /\ At(IsPush) = {}
          /\ \A i \in At(IsProbe) : \A j \in (i + 1)..Len(log) : log[j].kind = "print"

\* C9 witness: the railway CLI was missing, the install succeeded and the routine
\* ran to its end
C9_Witness ==
    /\ platform = "railway"
    /\ pc = "done"
    /\ url = CheckRailway
    /\ \E i \in At(IsProbe) : log[i].rc = "notfound"
    /\ \E i \in At(IsInstall) : log[i].rc = "ok"

---------------------------------------------------------------------------
IsSecretPrompt(e) ==
    e.kind = "input" /\ e.what \in { "Stripe Publishable Key", "Stripe Secret Key",
                                     "Stripe Webhook Secret", "Alpha Vantage API Key",
                                     "IEX Cloud API Key" }

IsBilling(e) ==
    \/ e.kind = "stripe"
    \/ e.kind = "input" /\ e.what \in { "Set up Stripe products? (y/N)",
                                        "Enter your Stripe Secret Key" }
    \/ e.kind = "print" /\ e.what \in { "Setting up Stripe products...",
                                        "Skipping Stripe setup",
                                        "Error setting up Stripe",
                                        "Stripe products created successfully!",
                                        "Add these to your environment variables" }

Before(A, B) == \A a \in A, b \in B : a < b

\* the order of the steps, wherever they occur: billing setup, then the routine;
\* in the routine the probe and install, then the five secret prompts, then the
\* pushes, then the deploy command, which runs only after every eligible entry
\* was pushed successfully
StepsInOrder ==
    LET billing == At(IsBilling)
        calls   == At(IsCall)
        banners == At(IsBanner)
        probes  == At(IsProbe)
        install == At(IsInstall)
        prompts == At(IsSecretPrompt)
        pushes  == At(IsPush)
        deploys == At(IsDeployCommand)
    IN  /\ Before(billing, calls)
        /\ Before(calls, banners)
        /\ Before(banners, probes)
        /\ Before(probes, install)
        /\ Before(probes \cup install, prompts)
        /\ Before(prompts, pushes)
        /\ Before(pushes, deploys)
        /\ calls # {} => ~InBillingSetup
        /\ pushes # {} => Cardinality(prompts) = 5
        /\ deploys # {} =>
              /\ Cardinality(deploys) = 1
              /\ Cardinality(prompts) = 5
              /\ Cardinality(probes) = 1
              /\ ProbeFailed => \E i \in install : log[i].rc = "ok"
              /\ \A i \in pushes : log[i].rc = "ok"
              /\ Cardinality(pushes) = Len(SelectSeq(env_vars, Pushable))

AllStepsTaken ==
    /\ At(IsProbe) # {}
    /\ Cardinality(At(IsSecretPrompt)) = 5
    /\ At(IsPush) # {}
    /\ At(IsDeployCommand) # {}

\* C10 as stated: every one of the four routines goes through the steps CLI
\* verified or installed, secrets prompted, secrets pushed, deploy command
\* invoked, in that order.
C10_FourRoutinesSameSteps ==
    /\ StepsInOrder
    /\ (platform \in FourNames /\ pc = "done" /\ Truthy(url)) => AllStepsTaken

\* C10 amended: the vercel, heroku and railway routines go through the steps in
\* that order, the deploy command never before the five prompts were answered and
\* every eligible push succeeded, billing setup before the routine's first step;
\* the render routine takes none of these steps: it writes render.yaml and
\* returns 'Manual setup required'.
C10_CliRoutinesInOrder ==
    /\ StepsInOrder
    /\ (platform \in CliNames /\ pc = "done" /\ Truthy(url)) => AllStepsTaken
    /\ platform = "render" =>
          /\ At(IsRun) = {}
          /\ At(IsSecretPrompt) = {}
          /\ pc \in { "returned", "done" } =>
                /\ url = ManualSetup
                /\ \E i \in 1..Len(log) : log[i].kind = "write"

\* C10 witness: a vercel run with billing set up in full, a placeholder and a
\* blank secret skipped, and the deploy command run
C10_Witness ==
    /\ platform = "vercel"
    /\ pc = "done"
    /\ made = Len(StripeCalls)
    /\ Get(env_vars, "STRIPE_WEBHOOK_SECRET") = Placeholder
    /\ Get(env_vars, "STRIPE_SECRET_KEY") = NoText
    /\ At(IsDeployCommand) # {}
    /\ Truthy(url)

====
